---- MODULE Spec2Model ----
(***************************************************************************)
(* A model of the dory provisioner core:                                   *)
(*   - the claim controller of common/k8s/provisioner/claim.go (the add    *)
(*     and update handlers, the goroutines they start, the table of        *)
(*     message channels keyed by claim UID);                               *)
(*   - getClaimFromPVCName, the wait on the claims store;                  *)
(*   - the docker volume plugin client (package dockervol).                *)
(* Go strings that are only compared are TLA+ strings; Go strings whose    *)
(* characters matter (prefix tests, format strings) are sequences of       *)
(* one-character strings.                                                  *)
(***************************************************************************)
EXTENDS Integers, Sequences, FiniteSets, TLC

VARIABLES
    events,           \* the add/update events delivered so far, each with the position of the goroutine it started
    id2chan,          \* the table addMessageChan fills: the claim UIDs that have an entry
    handlerWait,      \* the goroutine the watch loop's handler is waiting for (0: the handler has returned)
    claimsStore,      \* p.claimsStore: the informer's cache of claims
    call,             \* the getClaimFromPVCName call: its arguments, position, locals and results
    maxWaitForClaims, \* the number of seconds getClaimFromPVCName is configured to wait
    dvp,              \* the DockerVolumePlugin client
    lastCall,         \* the last operation called on the plugin client: its arguments, the requests it sent, what it returned
    roundTrips,       \* the number of requests the client has sent to the plugin
    errField,         \* the error field of the response handed to driverErrorCheck
    checked,          \* what driverErrorCheck returned for it
    args,             \* the arguments of the function called on its own (getClaimClassName, getClaimOverrideOptions, getV2PluginSocket)
    result            \* what that function returned

controllerVars == <<events, id2chan, handlerWait>>
resolverVars == <<claimsStore, call, maxWaitForClaims>>
clientVars == <<dvp, lastCall, roundTrips>>
errorCheckVars == <<errField, checked>>
functionVars == <<args, result>>
vars == <<controllerVars, resolverVars, clientVars, errorCheckVars, functionVars>>

\* ---------------------------------------------------------------- bounds

\* how many events the watch loop delivers in a run
MaxEvents == 2

\* the largest configured maxWaitForClaims
MaxWait == 2

\* how many requests the client sends to the plugin in a run
MaxRoundTrips == 2

\* the longest error field handed to driverErrorCheck
MaxErrLen == 4
MaxPlugins == 2        \* plugins in the registry docker answers with

\* ---------------------------------------------------------------- strings

HasPrefix(s, prefix) ==
    /\ Len(prefix) <= Len(s)
    /\ SubSeq(s, 1, Len(prefix)) = prefix

\* ---------------------------------------------------------------- claims

ClaimPending == "Pending"
ClaimBound == "Bound"

BetaStorageClassAnnotation == "volume.beta.kubernetes.io/storage-class"

\* a nil *string
NilString == "<nil>"

NoAnnotations == [k \in {} |-> ""]

UIDs == {"u1", "u2"}

\* the claims the watch delivers: the class is named by the annotation, by
\* Spec.StorageClassName, by both or by neither
ControllerClaims ==
    { [UID |-> u, Phase |-> ph, Annotations |-> an, StorageClassName |-> scn] :
        u \in UIDs,
        ph \in {ClaimPending, ClaimBound},
        an \in {NoAnnotations, (BetaStorageClassAnnotation :> "ext")},
        scn \in {NilString, "gold"} }

PersistentVolumeClaimPtr == "*v1.PersistentVolumeClaim"
PersistentVolumeClaimValue == "v1.PersistentVolumeClaim"
OtherType == "string"

NoControllerClaim ==
    [UID |-> "", Phase |-> "", Annotations |-> NoAnnotations, StorageClassName |-> NilString]

\* what the informer hands a handler: an interface{} holding a claim by
\* pointer, a claim by value, or something else
ControllerPayloads ==
    { [type |-> ty, claim |-> c] :
        ty \in {PersistentVolumeClaimPtr, PersistentVolumeClaimValue}, c \in ControllerClaims }
    \cup { [type |-> OtherType, claim |-> NoControllerClaim] }

\* the old objects of update events (updatedClaim does not read them)
OldPayloads ==
    { t \in ControllerPayloads :
        \/ t.type = OtherType
        \/ /\ t.type = PersistentVolumeClaimPtr
           /\ t.claim.UID = "u1" /\ t.claim.Phase = ClaimPending
           /\ t.claim.Annotations = NoAnnotations /\ t.claim.StorageClassName = "gold" }

getPersistentVolumeClaim(t) ==
    IF t.type \in {PersistentVolumeClaimPtr, PersistentVolumeClaimValue}
    THEN [claim |-> t.claim, err |-> FALSE]
    ELSE [claim |-> NoControllerClaim, err |-> TRUE]

\* the structured field read first, the annotation only without it
getClaimClassNameFieldFirst(claim) ==
    IF claim.StorageClassName # NilString
    THEN claim.StorageClassName
    ELSE IF BetaStorageClassAnnotation \in DOMAIN claim.Annotations
    THEN claim.Annotations[BetaStorageClassAnnotation]
    ELSE ""

getClaimClassName(claim) ==
    LET beta == BetaStorageClassAnnotation \in DOMAIN claim.Annotations
        name == IF beta THEN claim.Annotations[BetaStorageClassAnnotation] ELSE ""
    IN  IF ~beta /\ claim.StorageClassName # NilString
        THEN claim.StorageClassName
        ELSE name

\* ---------------------------------------------------------------- classes

\* p.namePrefix
namePrefix == <<"d", "/">>

NoClass == [Provisioner |-> <<>>]

\* the storage classes of the cluster
storageClasses ==
    ("gold" :> [Provisioner |-> <<"d", "/", "n">>]) @@
    ("ext" :> [Provisioner |-> <<"x", "/", "n">>])

getClass(className) ==
    IF className \in DOMAIN storageClasses
    THEN [class |-> storageClasses[className], err |-> FALSE]
    ELSE [class |-> NoClass, err |-> TRUE]

\* ---------------------------------------------------------------- controller

\* p.addMessageChan(uid, nil): the UID gets an entry
addMessageChan(table, uid) == table \cup {uid}

\* a plain call instead of `go': the handler waits for goroutine i to end
CallStatement(i) == i

\* `go f(x)': the handler goes on without waiting for goroutine i
GoStatement(i) == 0

\* the goroutine's position once it has ended releases a handler waiting for it
Release(i) == IF handlerWait = i THEN 0 ELSE handlerWait

addedClaim(t) ==
    LET r == getPersistentVolumeClaim(t)
        i == Len(events) + 1
    IN  /\ handlerWait = 0
        /\ Len(events) < MaxEvents
        /\ IF r.err
           THEN /\ events' = Append(events, [kind |-> "add", payload |-> t, pc |-> "none"])
                /\ UNCHANGED handlerWait
           ELSE /\ events' = Append(events, [kind |-> "add", payload |-> t, pc |-> "start"])
                /\ handlerWait' = GoStatement(i)
        /\ UNCHANGED id2chan
        /\ UNCHANGED <<resolverVars, clientVars, errorCheckVars, functionVars>>

\* sendUpdate is handed the claim; what it does with it is not followed, and
\* the event is recorded without it
updatedClaim(oldT, newT) ==
    LET r == getPersistentVolumeClaim(newT)
        i == Len(events) + 1
    IN  /\ handlerWait = 0
        /\ Len(events) < MaxEvents
        /\ IF r.err
           THEN /\ events' = Append(events, [kind |-> "update", pc |-> "none"])
                /\ UNCHANGED handlerWait
           ELSE /\ events' = Append(events, [kind |-> "update", pc |-> "start"])
                /\ handlerWait' = GoStatement(i)
        /\ UNCHANGED id2chan
        /\ UNCHANGED <<resolverVars, clientVars, errorCheckVars, functionVars>>

\* the checks without the test of the phase
processAddedClaimChecksNoPhase(claim) ==
    LET className == getClaimClassName(claim)
        c == getClass(className)
    IN  IF c.err THEN "skip"
        ELSE IF ~HasPrefix(c.class.Provisioner, namePrefix) THEN "skip"
        ELSE "provision"

\* the checks of processAddedClaim: "skip" on any early return
processAddedClaimChecks(claim) ==
    LET className == getClaimClassName(claim)
        c == getClass(className)
    IN  IF claim.Phase # ClaimPending THEN "skip"
        ELSE IF c.err THEN "skip"
        ELSE IF ~HasPrefix(c.class.Provisioner, namePrefix) THEN "skip"
        ELSE "provision"

\* goroutine i, started by addedClaim: from its start to addMessageChan
processAddedClaim(i) ==
    LET claim == getPersistentVolumeClaim(events[i].payload).claim
    IN  /\ i \in 1..Len(events)
        /\ events[i].kind = "add"
        /\ events[i].pc = "start"
        /\ IF processAddedClaimChecks(claim) = "skip"
           THEN /\ events' = [events EXCEPT ![i].pc = "skipped"]
                /\ handlerWait' = Release(i)
                /\ UNCHANGED id2chan
           ELSE /\ id2chan' = addMessageChan(id2chan, claim.UID)
                /\ events' = [events EXCEPT ![i].pc = "registered"]
                /\ UNCHANGED handlerWait
        /\ UNCHANGED <<resolverVars, clientVars, errorCheckVars, functionVars>>

\* goroutine i calls p.provisionVolume(claim, class)
provisionVolumeStart(i) ==
    /\ i \in 1..Len(events)
    /\ events[i].kind = "add"
    /\ events[i].pc = "registered"
    /\ events' = [events EXCEPT ![i].pc = "provisioning"]
    /\ UNCHANGED <<id2chan, handlerWait>>
    /\ UNCHANGED <<resolverVars, clientVars, errorCheckVars, functionVars>>

\* p.provisionVolume returns (it may never: plugin calls have no timeout)
provisionVolumeReturn(i) ==
    /\ i \in 1..Len(events)
    /\ events[i].kind = "add"
    /\ events[i].pc = "provisioning"
    /\ events' = [events EXCEPT ![i].pc = "done"]
    /\ handlerWait' = Release(i)
    /\ UNCHANGED id2chan
    /\ UNCHANGED <<resolverVars, clientVars, errorCheckVars, functionVars>>

\* goroutine i, started by updatedClaim: p.sendUpdate(claim) runs and returns
sendUpdate(i) ==
    /\ i \in 1..Len(events)
    /\ events[i].kind = "update"
    /\ events[i].pc = "start"
    /\ events' = [events EXCEPT ![i].pc = "done"]
    /\ handlerWait' = Release(i)
    /\ UNCHANGED id2chan
    /\ UNCHANGED <<resolverVars, clientVars, errorCheckVars, functionVars>>

ControllerInit ==
    /\ events = <<>>
    /\ id2chan = {}
    /\ handlerWait = 0

\* ---------------------------------------------------------------- getClaimFromPVCName

Names == {"c1", "c2"}
Namespaces == {"ns", "other"}

\* the claims of the store, by what getClaimFromPVCName reads of them
StoreClaims == [Name : Names, Namespace : Namespaces, Phase : {ClaimPending, ClaimBound}]

NoStoreClaim == [Name |-> "", Namespace |-> "", Phase |-> ""]

\* the store keeps one object per namespace/name key
HasKey(store, c) == \E d \in store : d.Name = c.Name /\ d.Namespace = c.Namespace

\* whether the store holds the claim a call for (namespace, claimName) looks for
HoldsBound(store, namespace, claimName) ==
    [Name |-> claimName, Namespace |-> namespace, Phase |-> ClaimBound] \in store

\* the call's record of what the store did while it ran
Observe(store) == [call EXCEPT !.stayedEmpty = @ /\ store = {}]

\* the informer changes the store, whatever getClaimFromPVCName is doing
storeChanged ==
    /\ call' = IF call.pc \in {"loop", "scan"} THEN Observe(claimsStore') ELSE call
    /\ UNCHANGED maxWaitForClaims
    /\ UNCHANGED <<controllerVars, clientVars, errorCheckVars, functionVars>>

\* the informer adds a claim to the store
storeAdd(c) ==
    /\ ~HasKey(claimsStore, c)
    /\ claimsStore' = claimsStore \cup {c}
    /\ storeChanged

\* the informer replaces a claim of the store by its new state
storeUpdate(c) ==
    /\ HasKey(claimsStore, c)
    /\ c \notin claimsStore
    /\ claimsStore' = { d \in claimsStore : ~(d.Name = c.Name /\ d.Namespace = c.Namespace) } \cup {c}
    /\ storeChanged

\* the informer deletes a claim from the store
storeDelete(c) ==
    /\ c \in claimsStore
    /\ claimsStore' = claimsStore \ {c}
    /\ storeChanged

NoError == "nil"
ErrNoClaimsFound == "No Claims found after waiting for %d seconds"
ErrUnexpectedType == "unexpected type %T for %v"

IdleCall ==
    [pc |-> "idle", namespace |-> "", claimName |-> "", i |-> 0, sleeps |-> 0,
     claim |-> NoStoreClaim, err |-> NoError, warnings |-> 0,
     stayedEmpty |-> TRUE, atFirstCheck |-> FALSE, atScan |-> FALSE]

\* p.claimsStore.List(): the objects of the store, each a *PersistentVolumeClaim
claimsStoreList(store) == { [type |-> PersistentVolumeClaimPtr, claim |-> c] : c \in store }

\* the test of the scan without the phase
claimMatchesAnyPhase(claim, claimName, namespace) ==
    claim.Name = claimName /\ claim.Namespace = namespace

\* the test of the scan
claimMatches(claim, claimName, namespace) ==
    claim.Name = claimName /\ claim.Namespace = namespace /\ claim.Phase = ClaimBound

\* the call is made, for a volume in `namespace' cloned from claim `claimName'
getClaimFromPVCName(namespace, claimName) ==
    /\ call.pc = "idle"
    /\ call' = [IdleCall EXCEPT !.pc = "loop", !.namespace = namespace, !.claimName = claimName,
                               !.stayedEmpty = (claimsStore = {})]
    /\ UNCHANGED <<claimsStore, maxWaitForClaims>>
    /\ UNCHANGED <<controllerVars, clientVars, errorCheckVars, functionVars>>

\* one evaluation of the condition of the wait loop and, when the store is
\* empty, its body: give up, or sleep a second and count it
waitForClaims ==
    /\ call.pc = "loop"
    /\ LET seen == IF call.sleeps = 0
                   THEN [call EXCEPT !.atFirstCheck =
                            HoldsBound(claimsStore, call.namespace, call.claimName)]
                   ELSE call
       IN  IF Cardinality(claimsStoreList(claimsStore)) < 1
           THEN IF seen.i > maxWaitForClaims
                THEN call' = [seen EXCEPT !.pc = "done", !.warnings = @ + 1,
                                          !.claim = NoStoreClaim, !.err = ErrNoClaimsFound]
                ELSE call' = [seen EXCEPT !.sleeps = @ + 1, !.i = @ + 1]
           ELSE call' = [seen EXCEPT !.pc = "scan"]
    /\ UNCHANGED <<claimsStore, maxWaitForClaims>>
    /\ UNCHANGED <<controllerVars, clientVars, errorCheckVars, functionVars>>

\* the scan of the store, to the return: the first object of the list that
\* does not decode or that matches ends it (List's order is not fixed), and
\* with neither the warning is recorded and nil, nil returned
scanClaims ==
    /\ call.pc = "scan"
    /\ LET pvcs == claimsStoreList(claimsStore)
           seen == [call EXCEPT !.pc = "done", !.atScan =
                       HoldsBound(claimsStore, call.namespace, call.claimName)]
           bad == { pvc \in pvcs : getPersistentVolumeClaim(pvc).err }
           matching == { pvc \in pvcs \ bad :
                           claimMatches(getPersistentVolumeClaim(pvc).claim,
                                        call.claimName, call.namespace) }
           returns ==
               { [seen EXCEPT !.claim = NoStoreClaim, !.err = ErrUnexpectedType] : pvc \in bad }
               \cup { [seen EXCEPT !.claim = getPersistentVolumeClaim(pvc).claim, !.err = NoError] :
                        pvc \in matching }
               \cup { [seen EXCEPT !.warnings = @ + 1, !.claim = NoStoreClaim, !.err = NoError] :
                        x \in IF bad = {} /\ matching = {} THEN {0} ELSE {} }
       IN  call' \in returns
    /\ UNCHANGED <<claimsStore, maxWaitForClaims>>
    /\ UNCHANGED <<controllerVars, clientVars, errorCheckVars, functionVars>>

ResolverInit ==
    /\ claimsStore = {}
    /\ call = IdleCall

\* ---------------------------------------------------------------- errors

nil == [nil |-> TRUE, msg |-> <<>>]

\* errors.New(msg)
NewError(msg) == [nil |-> FALSE, msg |-> msg]

\* fmt.Sprintf(format) with no operands: "%%" is a percent sign, a verb has
\* no operand left, a percent sign at the end has no verb
RECURSIVE Sprintf(_)
Sprintf(format) ==
    IF format = <<>> THEN <<>>
    ELSE IF Head(format) # "%" THEN <<Head(format)>> \o Sprintf(Tail(format))
    ELSE IF Len(format) = 1 THEN <<"%", "!", "(", "N", "O", "V", "E", "R", "B", ")">>
    ELSE IF format[2] = "%" THEN <<"%">> \o Sprintf(SubSeq(format, 3, Len(format)))
    ELSE <<"%", "!", format[2], "(", "M", "I", "S", "S", "I", "N", "G", ")">>
            \o Sprintf(SubSeq(format, 3, Len(format)))

\* fmt.Errorf(format) with no operands
Errorf(format) == NewError(Sprintf(format))

\* e is a response, e.Err what its getErr() returns
driverErrorCheck(e) ==
    IF e.Err # <<>> THEN Errorf(e.Err) ELSE nil

\* ---------------------------------------------------------------- plugin client

CreateURI == "/VolumeDriver.Create"
ListURI == "/VolumeDriver.List"
CapabilitiesURI == "/VolumeDriver.Capabilities"
RemoveURI == "/VolumeDriver.Remove"
MountURI == "/VolumeDriver.Mount"
UnmountURI == "/VolumeDriver.Unmount"
GetURI == "/VolumeDriver.Get"

ErrNameRequired == NewError(<<"name is required">>)

\* the error fields of the plugin's responses
ErrFields == {<<>>, <<"b">>, <<"%">>}

\* the JSON objects the plugin answers with
Bodies ==
    { [Err |-> e, Name |-> v.n, Mountpoint |-> v.m, Scope |-> v.s] :
        e \in ErrFields,
        v \in {[n |-> "", m |-> "", s |-> ""], [n |-> "vol", m |-> "/mnt", s |-> "global"]} }

NoBody == [Err |-> <<>>, Name |-> "", Mountpoint |-> "", Scope |-> ""]

ErrTransport == NewError(<<"dial unix: connect: no such file or directory">>)

\* what a round trip comes to: the transport's error, or the plugin's answer
Replies ==
    { [err |-> nil, body |-> b] : b \in Bodies } \cup { [err |-> ErrTransport, body |-> NoBody] }

NoReply == [err |-> nil, body |-> NoBody]

\* the body decoded into each response type: a field the type does not
\* declare is dropped
CapResponse(body) == [Capabilities |-> [Scope |-> body.Scope]]
GetResponse(body) == [Volume |-> [Name |-> body.Name, Mountpoint |-> body.Mountpoint], Err |-> body.Err]
GetListResponse(body) ==
    [Volumes |-> IF body.Name = "" THEN <<>> ELSE <<[Name |-> body.Name, Mountpoint |-> body.Mountpoint]>>,
     Err |-> body.Err]
MountResponse(body) == [Mountpoint |-> body.Mountpoint, Err |-> body.Err]

\* dvp.driverRun(r): the request goes out and the reply comes back
driverRun(r, reply) == [sent |-> <<r>>, err |-> reply.err]

Request(path, payload) == [Action |-> "POST", Path |-> path, Payload |-> payload]

\* a nil pointer and a pointer to a response
NilResponse == <<>>
Pointer(res) == <<res>>

Capabilities(reply) ==
    LET res == CapResponse(reply.body)
        run == driverRun(Request(CapabilitiesURI, [x \in {} |-> ""]), reply)
    IN  IF ~run.err.nil
        THEN [sent |-> run.sent, val |-> NilResponse, err |-> run.err]
        ELSE [sent |-> run.sent, val |-> Pointer(res), err |-> nil]

Get(name, reply) ==
    LET res == GetResponse(reply.body)
        run == driverRun(Request(GetURI, [Name |-> name]), reply)
    IN  IF ~run.err.nil
        THEN [sent |-> run.sent, val |-> NilResponse, err |-> run.err]
        ELSE IF ~driverErrorCheck(res).nil
        THEN [sent |-> run.sent, val |-> NilResponse, err |-> driverErrorCheck(res)]
        ELSE [sent |-> run.sent, val |-> Pointer(res), err |-> nil]

List(reply) ==
    LET res == GetListResponse(reply.body)
        run == driverRun(Request(ListURI, [x \in {} |-> ""]), reply)
    IN  IF ~run.err.nil
        THEN [sent |-> run.sent, val |-> NilResponse, err |-> run.err]
        ELSE IF ~driverErrorCheck(res).nil
        THEN [sent |-> run.sent, val |-> NilResponse, err |-> driverErrorCheck(res)]
        ELSE [sent |-> run.sent, val |-> Pointer(res), err |-> nil]

\* option keys are sequences of pieces, "kubernetes.io" being one piece
K8sPrefix == <<"kubernetes.io">>

\* the loop deleting the kubernetes.io keys whatever the client's configuration
StripOptionsAlways(stripK8sOpts, options) ==
    LET kept == { key \in DOMAIN options :
                    ~(key = <<"name">> \/ HasPrefix(key, K8sPrefix)) }
    IN  [key \in kept |-> options[key]]

\* the options left by the loop that deletes keys
StripOptions(stripK8sOpts, options) ==
    LET kept == { key \in DOMAIN options :
                    ~(key = <<"name">> \/ (stripK8sOpts /\ HasPrefix(key, K8sPrefix))) }
    IN  [key \in kept |-> options[key]]

Create(stripK8sOpts, name, options, reply) ==
    IF name = "" THEN [sent |-> <<>>, val |-> "", err |-> ErrNameRequired]
    ELSE
    LET res == GetResponse(reply.body)
        run == driverRun(Request(CreateURI,
                    [Name |-> name, Opts |-> StripOptions(stripK8sOpts, options)]), reply)
    IN  IF ~run.err.nil
        THEN [sent |-> run.sent, val |-> "", err |-> run.err]
        ELSE IF ~driverErrorCheck(res).nil
        THEN [sent |-> run.sent, val |-> "", err |-> driverErrorCheck(res)]
        ELSE [sent |-> run.sent, val |-> res.Volume.Name, err |-> nil]

\* mounter that sends the request before it looks at the name
mounterSendsFirst(name, mountID, path, reply) ==
    LET res == MountResponse(reply.body)
        run == driverRun(Request(path, [Name |-> name, ID |-> mountID]), reply)
    IN  IF name = "" THEN [sent |-> run.sent, val |-> "", err |-> ErrNameRequired]
        ELSE IF ~run.err.nil
        THEN [sent |-> run.sent, val |-> "", err |-> run.err]
        ELSE IF ~driverErrorCheck(res).nil
        THEN [sent |-> run.sent, val |-> "", err |-> driverErrorCheck(res)]
        ELSE [sent |-> run.sent, val |-> res.Mountpoint, err |-> nil]

mounter(name, mountID, path, reply) ==
    IF name = "" THEN [sent |-> <<>>, val |-> "", err |-> ErrNameRequired]
    ELSE
    LET res == MountResponse(reply.body)
        run == driverRun(Request(path, [Name |-> name, ID |-> mountID]), reply)
    IN  IF ~run.err.nil
        THEN [sent |-> run.sent, val |-> "", err |-> run.err]
        ELSE IF ~driverErrorCheck(res).nil
        THEN [sent |-> run.sent, val |-> "", err |-> driverErrorCheck(res)]
        ELSE [sent |-> run.sent, val |-> res.Mountpoint, err |-> nil]

Mount(name, mountID, reply) ==
    LET m == mounter(name, mountID, MountURI, reply)
    IN  IF ~m.err.nil THEN [sent |-> m.sent, val |-> "", err |-> m.err]
        ELSE [sent |-> m.sent, val |-> m.val, err |-> nil]

\* Unmount returns the error alone
Unmount(name, mountID, reply) ==
    LET m == mounter(name, mountID, UnmountURI, reply)
    IN  IF ~m.err.nil THEN [sent |-> m.sent, val |-> "", err |-> m.err]
        ELSE [sent |-> m.sent, val |-> "", err |-> nil]

\* Delete returns the error alone
Delete(name, reply) ==
    IF name = "" THEN [sent |-> <<>>, val |-> "", err |-> ErrNameRequired]
    ELSE
    LET res == GetResponse(reply.body)
        run == driverRun(Request(RemoveURI, [Name |-> name]), reply)
    IN  IF ~run.err.nil
        THEN [sent |-> run.sent, val |-> "", err |-> run.err]
        ELSE IF ~driverErrorCheck(res).nil
        THEN [sent |-> run.sent, val |-> "", err |-> driverErrorCheck(res)]
        ELSE [sent |-> run.sent, val |-> "", err |-> nil]

VolumeNames == {"", "vol"}
MountIDs == {"m1"}

OptionKeys == {<<"name">>, <<"name", "2">>, <<"kubernetes.io", "/pvc">>, <<"size">>}
OptionMaps == UNION { [keys -> {value}] : keys \in SUBSET OptionKeys, value \in {"1", "2"} }

\* an operation that takes no options
NoOptions == [key \in {} |-> ""]

\* a caller calls operation op of the client, which returns `returned'; the
\* reply is that of the round trip, when there was one
Invoke(op, name, options, reply, returned) ==
    /\ lastCall' = [op |-> op, name |-> name, options |-> options,
                    reply |-> IF returned.sent = <<>> THEN NoReply ELSE reply,
                    sent |-> returned.sent, val |-> returned.val, err |-> returned.err]
    /\ roundTrips' = roundTrips + Len(returned.sent)
    /\ UNCHANGED dvp
    /\ UNCHANGED <<controllerVars, resolverVars, errorCheckVars, functionVars>>

CallCapabilities ==
    \E reply \in Replies :
        /\ roundTrips < MaxRoundTrips
        /\ Invoke("Capabilities", "", NoOptions, reply, Capabilities(reply))

CallGet ==
    \E name \in VolumeNames, reply \in Replies :
        /\ roundTrips < MaxRoundTrips
        /\ Invoke("Get", name, NoOptions, reply, Get(name, reply))

CallList ==
    \E reply \in Replies :
        /\ roundTrips < MaxRoundTrips
        /\ Invoke("List", "", NoOptions, reply, List(reply))

CallCreate ==
    \E name \in VolumeNames, options \in OptionMaps, reply \in Replies :
        /\ roundTrips < MaxRoundTrips
        /\ Invoke("Create", name, options, reply, Create(dvp.stripK8sOpts, name, options, reply))

CallMount ==
    \E name \in VolumeNames, mountID \in MountIDs, reply \in Replies :
        /\ roundTrips < MaxRoundTrips
        /\ Invoke("Mount", name, NoOptions, reply, Mount(name, mountID, reply))

CallUnmount ==
    \E name \in VolumeNames, mountID \in MountIDs, reply \in Replies :
        /\ roundTrips < MaxRoundTrips
        /\ Invoke("Unmount", name, NoOptions, reply, Unmount(name, mountID, reply))

CallDelete ==
    \E name \in VolumeNames, reply \in Replies :
        /\ roundTrips < MaxRoundTrips
        /\ Invoke("Delete", name, NoOptions, reply, Delete(name, reply))

ClientInit ==
    /\ lastCall = [op |-> "", name |-> "", options |-> NoOptions, reply |-> NoReply, sent |-> <<>>, val |-> "", err |-> nil]
    /\ roundTrips = 0

\* ---------------------------------------------------------------- driverErrorCheck alone

Chars == {"%", "d", "U"}

RECURSIVE StringsOfLen(_)
StringsOfLen(n) ==
    IF n = 0 THEN {<<>>}
    ELSE { <<c>> \o rest : c \in Chars, rest \in StringsOfLen(n - 1) }

Strings == UNION { StringsOfLen(n) : n \in 0..MaxErrLen }

NotChecked == [nil |-> FALSE, msg |-> <<"not checked">>]

\* driverErrorCheck is called with a response whose error field is errField
checkResponse ==
    /\ checked = NotChecked
    /\ checked' = driverErrorCheck([Err |-> errField])
    /\ UNCHANGED errField
    /\ UNCHANGED <<controllerVars, resolverVars, clientVars, functionVars>>

\* ---------------------------------------------------------------- specifications

\* ---------------------------------------------------------------- functions called on their own

NotCalled == [called |-> FALSE]
Returned(value) == [called |-> TRUE, value |-> value]

\* the claims getClaimClassName is called with: the annotation absent, empty
\* or set, beside another annotation or not; StorageClassName nil, empty or set
ClassNameClaims ==
    { [UID |-> "u1", Phase |-> ph, Annotations |-> an, StorageClassName |-> scn] :
        ph \in {ClaimPending, ClaimBound},
        an \in UNION { [keys -> {"", "gold", "ext"}] :
                        keys \in SUBSET {BetaStorageClassAnnotation, "description"} },
        scn \in {NilString, "", "gold", "ext"} }

callGetClaimClassName ==
    /\ result = NotCalled
    /\ result' = Returned(getClaimClassName(args))
    /\ UNCHANGED args
    /\ UNCHANGED <<controllerVars, resolverVars, clientVars, errorCheckVars>>

\* strings.ToLower, on the letters the keys are written with
ToLowerChar(c) == CASE c = "A" -> "a" [] c = "P" -> "p" [] OTHER -> c
ToLower(s) == [i \in 1..Len(s) |-> ToLowerChar(s[i])]

\* the orders a range statement can visit the keys of a map in
Orders(keys) ==
    { order \in [1..Cardinality(keys) -> keys] : { order[i] : i \in 1..Cardinality(keys) } = keys }

\* the test without ToLower: the keys compared as they are written
overrideMatchesCaseSensitive(provisionerName, key, override) ==
    HasPrefix(key, provisionerName \o override)

\* the test of the inner loop's if
overrideMatches(provisionerName, key, override) ==
    HasPrefix(ToLower(key), provisionerName \o ToLower(override))

\* optionsMap[override] = annotation
SetOption(optionsMap, override, annotation) ==
    [key \in DOMAIN optionsMap \cup {override} |->
        IF key = override THEN annotation ELSE optionsMap[key]]

\* the inner loop, visiting the annotations in the order of keys
RECURSIVE rangeAnnotations(_, _, _, _, _)
rangeAnnotations(provisionerName, claim, keys, override, optionsMap) ==
    IF keys = <<>>
    THEN optionsMap
    ELSE rangeAnnotations(provisionerName, claim, Tail(keys), override,
            IF overrideMatches(provisionerName, Head(keys), override)
            THEN SetOption(optionsMap, override, claim.Annotations[Head(keys)])
            ELSE optionsMap)

\* the outer loop from the i-th override on; orders[i] is the order the i-th
\* range over claim.Annotations visits the keys in
RECURSIVE rangeOverrides(_, _, _, _, _, _)
rangeOverrides(provisionerName, claim, overrides, orders, i, optionsMap) ==
    IF i > Len(overrides)
    THEN optionsMap
    ELSE rangeOverrides(provisionerName, claim, overrides, orders, i + 1,
            rangeAnnotations(provisionerName, claim, orders[i], overrides[i], optionsMap))

getClaimOverrideOptions(provisionerName, claim, overrides, optionsMap, orders) ==
    rangeOverrides(provisionerName, claim, overrides, orders, 1, optionsMap)

\* the inputs getClaimOverrideOptions is called with
OverridePrefixes == {<<"p", ".">>, <<"P", ".">>}
OverrideAnnotationKeys == {<<"p", ".", "a">>, <<"P", ".", "a", "b">>, <<"q", ".", "a">>}
OverrideAnnotations ==
    UNION { [keys -> {"2", "3"}] : keys \in SUBSET OverrideAnnotationKeys }
OverrideLists == {<<>>, <<<<"a">>>>, <<<<"A">>, <<"b">>>>}
OverrideBases ==
    { NoOptions, [key \in {<<"a">>} |-> "1"], [key \in {<<"a">>, <<"s">>} |-> "1"] }
OverrideArgs ==
    [namePrefix : OverridePrefixes, Annotations : OverrideAnnotations,
     overrides : OverrideLists, optionsMap : OverrideBases]

AllOrders(a) == [1..Len(a.overrides) -> Orders(DOMAIN a.Annotations)]

callGetClaimOverrideOptions ==
    /\ result = NotCalled
    /\ \E orders \in AllOrders(args) :
           result' = Returned(getClaimOverrideOptions(args.namePrefix, args, args.overrides,
                                                      args.optionsMap, orders))
    /\ UNCHANGED args
    /\ UNCHANGED <<controllerVars, resolverVars, clientVars, errorCheckVars>>

\* ---------------------------------------------------------------- plugin discovery

\* names and paths are sequences of pieces; fmt.Sprintf's %s copies its operand
LatestTag == <<":latest">>
PluginNames == {<<"nimble">>, <<"nimble">> \o LatestTag, <<"other">>}
Plugins == [Name : PluginNames, ID : {"X", "Y"}, Enabled : BOOLEAN, Socket : {"nimble.sock"}]
Registries == UNION { [1..n -> Plugins] : n \in 0..MaxPlugins }

ErrPluginsGet == NewError(<<"dial unix /var/run/docker.sock: connect: no such file or directory">>)

\* what c.PluginsGet() returns
DockerAnswers ==
    { [plugins |-> registry, err |-> nil] : registry \in Registries }
        \cup { [plugins |-> <<>>, err |-> ErrPluginsGet] }

PluginSocket(plugin) == <<"/", "run/docker/plugins/", plugin.ID, "/", plugin.Socket>>

\* the requested name compared with the plugin's name only
pluginMatchesExactly(name, plugin) == name = plugin.Name

\* the test of the loop's if
pluginMatches(name, plugin) ==
    \/ name = plugin.Name
    \/ name \o LatestTag = plugin.Name

ErrDisabled(name) ==
    NewError(<<"found Docker V2 Plugin named ">> \o name \o <<", but it is disabled">>)
ErrUnableToFind(name) == NewError(<<"unable to find V2 plugin named ">> \o name)
ErrFailedToGet(err) == NewError(<<"failed to get V2 plugins from docker. error=">> \o err.msg)

\* the loop over the plugins, in the order docker lists them
RECURSIVE rangePlugins(_, _)
rangePlugins(name, plugins) ==
    IF plugins = <<>>
    THEN [path |-> <<>>, err |-> ErrUnableToFind(name)]
    ELSE IF pluginMatches(name, Head(plugins))
    THEN IF ~Head(plugins).Enabled
         THEN [path |-> PluginSocket(Head(plugins)), err |-> ErrDisabled(name)]
         ELSE [path |-> PluginSocket(Head(plugins)), err |-> nil]
    ELSE rangePlugins(name, Tail(plugins))

\* docker is what the docker client's PluginsGet answers
getV2PluginSocket(name, docker) ==
    IF ~docker.err.nil
    THEN [path |-> <<>>, err |-> ErrFailedToGet(docker.err)]
    ELSE rangePlugins(name, docker.plugins)

RequestedNames == {<<>>, <<"nimble">>, <<"nimble">> \o LatestTag, <<"ghost">>}

callGetV2PluginSocket ==
    /\ result = NotCalled
    /\ result' = Returned(getV2PluginSocket(args.name, args.docker))
    /\ UNCHANGED args
    /\ UNCHANGED <<controllerVars, resolverVars, clientVars, errorCheckVars>>

\* ---------------------------------------------------------------- construction of the client

defaultSocketPath == <<"/", "run/docker/plugins/", "nimble.sock">>

SocketPaths == {<<>>, <<"/", "run/x.sock">>, <<"nimble">>, <<"ghost">>}
Options == [SocketPath : SocketPaths, StripK8sFromOptions : BOOLEAN]

NilClient == <<>>
NoProbe == [sent |-> <<>>, val |-> NilResponse, err |-> nil]

\* a failed probe returns no client
NewDockerVolumePluginNilOnProbeFailure(options, docker, reply) ==
    LET found == IF ~HasPrefix(options.SocketPath, <<"/">>)
                 THEN getV2PluginSocket(options.SocketPath, docker)
                 ELSE [path |-> options.SocketPath, err |-> nil]
        probe == Capabilities(reply)
    IN  IF ~found.err.nil
        THEN [dvp |-> NilClient, err |-> found.err, probe |-> NoProbe]
        ELSE IF ~probe.err.nil
        THEN [dvp |-> NilClient, err |-> probe.err, probe |-> probe]
        ELSE [dvp |-> Pointer([stripK8sOpts |-> options.StripK8sFromOptions,
                               client |-> IF found.path = <<>> THEN defaultSocketPath ELSE found.path]),
              err |-> nil, probe |-> probe]

\* docker is what the docker daemon answers the discovery, reply what the
\* plugin answers the probe; probe is the Capabilities call as it went
NewDockerVolumePlugin(options, docker, reply) ==
    LET found == IF ~HasPrefix(options.SocketPath, <<"/">>)
                 THEN getV2PluginSocket(options.SocketPath, docker)
                 ELSE [path |-> options.SocketPath, err |-> nil]
        socketPath == IF found.path = <<>> THEN defaultSocketPath ELSE found.path
        built == [stripK8sOpts |-> options.StripK8sFromOptions, client |-> socketPath]
        probe == Capabilities(reply)
    IN  IF ~found.err.nil
        THEN [dvp |-> NilClient, err |-> found.err, probe |-> NoProbe]
        ELSE IF ~probe.err.nil
        THEN [dvp |-> Pointer(built), err |-> probe.err, probe |-> probe]
        ELSE [dvp |-> Pointer(built), err |-> nil, probe |-> probe]

callNewDockerVolumePlugin ==
    \E reply \in Replies :
        LET returned == NewDockerVolumePlugin(args.options, args.docker, reply)
        IN  /\ result = NotCalled
            /\ result' = Returned([dvp |-> returned.dvp, err |-> returned.err])
            /\ lastCall' = IF returned.probe.sent = <<>>
                           THEN lastCall
                           ELSE [op |-> "Capabilities", name |-> "", options |-> NoOptions,
                                 reply |-> reply, sent |-> returned.probe.sent,
                                 val |-> returned.probe.val, err |-> returned.probe.err]
            /\ roundTrips' = roundTrips + Len(returned.probe.sent)
            /\ UNCHANGED <<dvp, args>>
            /\ UNCHANGED <<controllerVars, resolverVars, errorCheckVars>>

\* the parts of the state a specification leaves alone
ResolverIdle == ResolverInit /\ maxWaitForClaims = 0
ClientIdle == ClientInit /\ dvp = [stripK8sOpts |-> FALSE]
ErrorCheckIdle == errField = <<>> /\ checked = NotChecked
FunctionIdle == args = <<>> /\ result = NotCalled

Init ==
    /\ ControllerInit
    /\ ResolverIdle
    /\ ClientIdle
    /\ ErrorCheckIdle
    /\ FunctionIdle

Next ==
    \/ \E t \in ControllerPayloads : addedClaim(t)
    \/ \E oldT \in OldPayloads, newT \in ControllerPayloads : updatedClaim(oldT, newT)
    \/ \E i \in 1..MaxEvents : processAddedClaim(i)
    \/ \E i \in 1..MaxEvents : provisionVolumeStart(i)
    \/ \E i \in 1..MaxEvents : provisionVolumeReturn(i)
    \/ \E i \in 1..MaxEvents : sendUpdate(i)

\* the claim controller
Spec == Init /\ [][Next]_vars

InitResolve ==
    /\ ControllerInit
    /\ ResolverInit
    /\ maxWaitForClaims \in 0..MaxWait
    /\ ClientIdle
    /\ ErrorCheckIdle
    /\ FunctionIdle

NextResolve ==
    \/ \E c \in StoreClaims : storeAdd(c)
    \/ \E c \in StoreClaims : storeUpdate(c)
    \/ \E c \in StoreClaims : storeDelete(c)
    \/ \E namespace \in Namespaces, claimName \in Names : getClaimFromPVCName(namespace, claimName)
    \/ waitForClaims
    \/ scanClaims

\* one call of getClaimFromPVCName while the informer changes the store
SpecResolve == InitResolve /\ [][NextResolve]_vars

InitClient ==
    /\ ControllerInit
    /\ ResolverIdle
    /\ ClientInit
    /\ dvp \in [stripK8sOpts : BOOLEAN]
    /\ ErrorCheckIdle
    /\ FunctionIdle

NextClient ==
    \/ CallCapabilities
    \/ CallGet
    \/ CallList
    \/ CallCreate
    \/ CallMount
    \/ CallUnmount
    \/ CallDelete

\* callers of the plugin client, one operation after another
SpecClient == InitClient /\ [][NextClient]_vars

InitErrorCheck ==
    /\ ControllerInit
    /\ ResolverIdle
    /\ ClientIdle
    /\ errField \in Strings
    /\ checked = NotChecked
    /\ FunctionIdle

NextErrorCheck == checkResponse

\* driverErrorCheck on every error field of up to MaxErrLen characters
SpecErrorCheck == InitErrorCheck /\ [][NextErrorCheck]_vars

InitClassName ==
    /\ ControllerInit
    /\ ResolverIdle
    /\ ClientIdle
    /\ ErrorCheckIdle
    /\ args \in ClassNameClaims
    /\ result = NotCalled

NextClassName == callGetClaimClassName

\* getClaimClassName on every claim of ClassNameClaims
SpecClassName == InitClassName /\ [][NextClassName]_vars

InitOverride ==
    /\ ControllerInit
    /\ ResolverIdle
    /\ ClientIdle
    /\ ErrorCheckIdle
    /\ args \in OverrideArgs
    /\ result = NotCalled

NextOverride == callGetClaimOverrideOptions

\* getClaimOverrideOptions on every input of OverrideArgs, in every visiting order
SpecOverride == InitOverride /\ [][NextOverride]_vars

InitDiscovery ==
    /\ ControllerInit
    /\ ResolverIdle
    /\ ClientIdle
    /\ ErrorCheckIdle
    /\ args \in [name : RequestedNames, docker : DockerAnswers]
    /\ result = NotCalled

NextDiscovery == callGetV2PluginSocket

\* getV2PluginSocket on every requested name and registry
SpecDiscovery == InitDiscovery /\ [][NextDiscovery]_vars

InitConstruct ==
    /\ ControllerInit
    /\ ResolverIdle
    /\ ClientIdle
    /\ ErrorCheckIdle
    /\ args \in [options : Options, docker : DockerAnswers]
    /\ result = NotCalled

NextConstruct == callNewDockerVolumePlugin

\* NewDockerVolumePlugin on every locator, registry and answer to the probe
SpecConstruct == InitConstruct /\ [][NextConstruct]_vars

\* ---------------------------------------------------------------- claims C1..C3

\* the conditions of the specification for a claim to be provisioned
Eligible(t) ==
    /\ t.type \in {PersistentVolumeClaimPtr, PersistentVolumeClaimValue}
    /\ t.claim.Phase = ClaimPending
    /\ LET name == IF BetaStorageClassAnnotation \in DOMAIN t.claim.Annotations
                   THEN t.claim.Annotations[BetaStorageClassAnnotation]
                   ELSE IF t.claim.StorageClassName = NilString THEN ""
                   ELSE t.claim.StorageClassName
       IN  /\ name \in DOMAIN storageClasses
           /\ HasPrefix(storageClasses[name].Provisioner, namePrefix)

AddEvents == { i \in 1..Len(events) : events[i].kind = "add" }

\* C1: an add event's goroutine registers the claim's UID and calls
\* provisionVolume exactly when the payload decodes to a claim that is Pending,
\* whose class is found and whose class's provisioner starts with the name
\* prefix; no other event adds an entry to the table or starts provisioning.
C1_ProvisionIffEligible ==
    /\ \A i \in AddEvents :
          /\ events[i].pc \in {"registered", "provisioning", "done"}
                => Eligible(events[i].payload) /\ events[i].payload.claim.UID \in id2chan
          /\ events[i].pc \in {"none", "skipped"} => ~Eligible(events[i].payload)
    /\ id2chan = { events[i].payload.claim.UID :
                     i \in { j \in AddEvents : events[j].pc \in {"registered", "provisioning", "done"} } }

\* an eligible claim's goroutine has called provisionVolume and an ineligible
\* claim's goroutine has returned without it
C1_Witness ==
    \E i, j \in AddEvents :
        /\ events[i].pc = "done" /\ Eligible(events[i].payload)
        /\ events[j].pc = "skipped" /\ events[j].payload.claim.Phase = ClaimPending

\* C2: no two provisionVolume executions for the same claim UID are in flight
\* at the same time.
C2_NoTwoProvisioningsOfOneUID ==
    \A i, j \in AddEvents :
        /\ i # j
        /\ events[i].pc = "provisioning"
        /\ events[j].pc = "provisioning"
        => events[i].payload.claim.UID # events[j].payload.claim.UID

DeliverEnabled ==
    /\ ENABLED (\E t \in ControllerPayloads : addedClaim(t))
    /\ ENABLED (\E oldT \in OldPayloads, newT \in ControllerPayloads : updatedClaim(oldT, newT))

\* C3: the handlers return once they have started their goroutine, so as long
\* as the watch has events to deliver, the next one can be delivered, whatever
\* the goroutines started so far are doing.
C3_WatchLoopNeverBlocked ==
    /\ handlerWait = 0
    /\ Len(events) < MaxEvents => DeliverEnabled

\* a provisioning goroutine is in provisionVolume and the next event can be
\* delivered
C3_Witness ==
    /\ Len(events) < MaxEvents
    /\ \E i \in AddEvents : events[i].pc = "provisioning"
    /\ DeliverEnabled

\* ---------------------------------------------------------------- claims C4..C7

\* C4: the call gives up without a claim only once it has waited the maximum:
\* while the claim it looks for is not in the store as Bound it sleeps a second
\* and scans again, whatever other claims the store holds.
C4_RetriesUntilMaxWait ==
    call.pc = "done" /\ call.claim = NoStoreClaim => call.sleeps >= maxWaitForClaims

\* C5: a call that ends without a claim returns the not-found error and has
\* recorded a warning on the volume; it never returns nil, nil.
C5_NoClaimIsAnError ==
    call.pc = "done" /\ call.claim = NoStoreClaim
        => call.err = ErrNoClaimsFound /\ call.warnings >= 1

\* C6: with a store that stays empty, the call sleeps exactly
\* maxWaitForClaims times, then fails with the not-found error, having
\* recorded exactly one warning.
C6_EmptyStoreSleepsMaxWaitTimes ==
    call.pc = "done" /\ call.stayedEmpty
        => /\ call.sleeps = maxWaitForClaims
           /\ call.err = ErrNoClaimsFound
           /\ call.warnings = 1

\* C7: when the store holds a Bound claim of the requested name in the
\* volume's namespace at the call's first look at the store and at its scan,
\* the call returns a claim with that name, namespace and phase, without a
\* sleep or a warning; and any claim a call returns has the requested name,
\* the volume's namespace and phase Bound.
C7_ReturnsTheBoundClaim ==
    call.pc = "done" =>
        /\ call.atFirstCheck /\ call.atScan
             => /\ call.claim = [Name |-> call.claimName, Namespace |-> call.namespace,
                                 Phase |-> "Bound"]
                /\ call.err = NoError
                /\ call.sleeps = 0
                /\ call.warnings = 0
        /\ call.claim # NoStoreClaim
             => /\ call.claim.Name = call.claimName
                /\ call.claim.Namespace = call.namespace
                /\ call.claim.Phase = "Bound"

\* the call has returned the Bound claim out of a store that holds other
\* claims too, one of them of the same name
C7_Witness ==
    /\ call.pc = "done"
    /\ call.atFirstCheck /\ call.atScan
    /\ call.claim \in claimsStore
    /\ \E c \in claimsStore : c.Name = call.claimName /\ c.Namespace # call.namespace
    /\ \E c \in claimsStore : c.Name # call.claimName /\ c.Phase = "Pending"

\* ---------------------------------------------------------------- claims C8..C10

PointerResults == {"Capabilities", "Get", "List"}

NoPayload(op, val) == IF op \in PointerResults THEN val = NilResponse ELSE val = ""

\* C8: every operation returns the transport's error unchanged when the round
\* trip fails, and otherwise fails, with no payload, when the response's
\* error field is not empty.
C8_EveryOperationChecksTheErrorField ==
    lastCall.sent # <<>> =>
        IF ~lastCall.reply.err.nil
        THEN lastCall.err = lastCall.reply.err
        ELSE lastCall.reply.body.Err # <<>>
                => ~lastCall.err.nil /\ NoPayload(lastCall.op, lastCall.val)

\* C9: driverErrorCheck returns nil for an empty error field and, for any
\* other, an error whose message is the field's text, character for character.
C9_MessageIsTheErrorField ==
    checked # NotChecked =>
        IF errField = <<>>
        THEN checked.nil
        ELSE ~checked.nil /\ checked.msg = errField

\* C10: Create, Mount, Unmount and Delete fail without sending a request when
\* the name is empty, and otherwise send exactly one request, each to its path.
C10_EmptyNameSendsNothing ==
    lastCall.op \in {"Create", "Mount", "Unmount", "Delete"} =>
        IF lastCall.name = ""
        THEN ~lastCall.err.nil /\ lastCall.sent = <<>>
        ELSE /\ Len(lastCall.sent) = 1
             /\ lastCall.sent[1].Path =
                    CASE lastCall.op = "Create" -> "/VolumeDriver.Create"
                      [] lastCall.op = "Mount" -> "/VolumeDriver.Mount"
                      [] lastCall.op = "Unmount" -> "/VolumeDriver.Unmount"
                      [] lastCall.op = "Delete" -> "/VolumeDriver.Remove"

\* after an operation that sent its request, Unmount is called with an empty
\* name: it fails and the plugin has still seen one request only
C10_Witness ==
    /\ lastCall.op = "Unmount"
    /\ lastCall.name = ""
    /\ ~lastCall.err.nil
    /\ roundTrips = 1

\* ---------------------------------------------------------------- claim C11

\* C11: the request Create sends carries the options it was given without the
\* key "name" and, when the client strips kubernetes options, without the keys
\* that start with "kubernetes.io"; every other key is sent with its value,
\* and the "kubernetes.io" keys are sent too when the client does not strip.
C11_CreateSendsStrippedOptions ==
    lastCall.op = "Create" /\ lastCall.sent # <<>> =>
        LET given == lastCall.options
            sentOpts == lastCall.sent[1].Payload.Opts
        IN  /\ DOMAIN sentOpts =
                  { key \in DOMAIN given :
                      /\ key # <<"name">>
                      /\ ~(dvp.stripK8sOpts /\ key[1] = "kubernetes.io") }
            /\ \A key \in DOMAIN sentOpts : sentOpts[key] = given[key]

\* Create was given all four keys by a client that strips: two are sent
C11_Witness ==
    /\ lastCall.op = "Create"
    /\ lastCall.sent # <<>>
    /\ dvp.stripK8sOpts
    /\ DOMAIN lastCall.options = OptionKeys
    /\ lastCall.options[<<"size">>] = "2"
    /\ DOMAIN lastCall.sent[1].Payload.Opts = {<<"name", "2">>, <<"size">>}

\* ---------------------------------------------------------------- claim C12

\* C12: getClaimClassName returns the value of the legacy annotation whenever
\* its key is present, empty value included and whatever StorageClassName
\* holds; without the key it returns StorageClassName's value, or "" when that
\* is nil.
C12_AnnotationWins ==
    result.called =>
        IF BetaStorageClassAnnotation \in DOMAIN args.Annotations
        THEN result.value = args.Annotations[BetaStorageClassAnnotation]
        ELSE IF args.StorageClassName = NilString
        THEN result.value = ""
        ELSE result.value = args.StorageClassName

\* the annotation is present and empty, StorageClassName names a class: ""
C12_Witness ==
    /\ result.called
    /\ BetaStorageClassAnnotation \in DOMAIN args.Annotations
    /\ args.Annotations[BetaStorageClassAnnotation] = ""
    /\ args.StorageClassName = "gold"
    /\ result.value = ""

\* ---------------------------------------------------------------- claim C13

\* the annotation keys that, lowercased, start with the name prefix followed by
\* the lowercased override key k
MatchingAnnotations(a, k) ==
    { key \in DOMAIN a.Annotations : HasPrefix(ToLower(key), a.namePrefix \o ToLower(k)) }
MatchedOverrides(a) ==
    { k \in { a.overrides[i] : i \in 1..Len(a.overrides) } : MatchingAnnotations(a, k) # {} }

\* C13: getClaimOverrideOptions returns the base mapping changed in exactly the
\* entries of the override keys that some annotation key matches (lowercased
\* key starts with name prefix + lowercased override key): such an entry holds
\* the value of a matching annotation, copied as it is; every other entry of
\* the base mapping is unchanged, and without a match the result is the base
\* mapping.
C13_OverridesReplaceMatchedEntries ==
    result.called /\ "overrides" \in DOMAIN args =>
        /\ DOMAIN result.value = DOMAIN args.optionsMap \cup MatchedOverrides(args)
        /\ \A k \in MatchedOverrides(args) :
              \E key \in MatchingAnnotations(args, k) : result.value[k] = args.Annotations[key]
        /\ \A k \in DOMAIN args.optionsMap \ MatchedOverrides(args) :
              result.value[k] = args.optionsMap[k]
        /\ MatchedOverrides(args) = {} => result.value = args.optionsMap

\* override key "A" matched by the annotation key "P.ab" alone, under the prefix
\* "p.": the entry "A" is added with that annotation's value, "a" and "s" stay
C13_Witness ==
    /\ result.called
    /\ "overrides" \in DOMAIN args
    /\ args.namePrefix = <<"p", ".">>
    /\ args.overrides = <<<<"A">>, <<"b">>>>
    /\ DOMAIN args.Annotations = {<<"P", ".", "a", "b">>, <<"q", ".", "a">>}
    /\ args.Annotations[<<"P", ".", "a", "b">>] = "3"
    /\ DOMAIN args.optionsMap = {<<"a">>, <<"s">>}
    /\ DOMAIN result.value = {<<"a">>, <<"s">>, <<"A">>}
    /\ result.value[<<"A">>] = "3"
    /\ result.value[<<"a">>] = "1"

\* ---------------------------------------------------------------- claim C19

\* C19: getClaimOverrideOptions returns the same mapping whatever order the
\* annotations are visited in, also when several annotation keys match one
\* override key with different values.
C19_SameResultInEveryOrder ==
    result.called /\ "overrides" \in DOMAIN args =>
        \A orders \in AllOrders(args) :
            result.value = getClaimOverrideOptions(args.namePrefix, args, args.overrides,
                                                   args.optionsMap, orders)

\* ---------------------------------------------------------------- claims C14, C20

\* the places in the registry of the entries named name or name + ":latest"
MatchingPlugins(name, plugins) ==
    { i \in 1..Len(plugins) : plugins[i].Name = name \/ plugins[i].Name = name \o LatestTag }
FirstMatching(name, plugins) ==
    CHOOSE i \in MatchingPlugins(name, plugins) : \A j \in MatchingPlugins(name, plugins) : i <= j
PathOf(plugin) == <<"/", "run/docker/plugins/", plugin.ID, "/", plugin.Socket>>

\* C14 as stated: an enabled entry named n, the only entry of the registry
\* named n or n + ":latest", is found with its path by resolving n and by
\* resolving n + ":latest".
C14_EntryFoundWithOrWithoutTag ==
    result.called /\ "name" \in DOMAIN args /\ args.docker.err.nil =>
        \A i \in 1..Len(args.docker.plugins) :
            LET plugins == args.docker.plugins
                entry == plugins[i]
            IN  /\ entry.Enabled
                /\ \A j \in 1..Len(plugins) :
                      plugins[j].Name \in {entry.Name, entry.Name \o LatestTag} => j = i
                /\ args.name \in {entry.Name, entry.Name \o LatestTag}
                => result.value = [path |-> PathOf(entry), err |-> nil]

\* C14, amended: the entries that match a requested name are those named by
\* it or by it with ":latest" appended (an entry named n is not found by
\* resolving n + ":latest"); the first of them in the registry decides: enabled,
\* the call succeeds with its path /run/docker/plugins/ID/socket; disabled, it
\* fails and still returns that path; without a matching entry it fails with
\* the not-found error and an empty path.
C14_FirstMatchingEntryDecides ==
    result.called /\ "name" \in DOMAIN args /\ args.docker.err.nil =>
        LET plugins == args.docker.plugins
        IN  IF MatchingPlugins(args.name, plugins) = {}
            THEN /\ result.value.path = <<>>
                 /\ result.value.err = NewError(<<"unable to find V2 plugin named ">> \o args.name)
            ELSE LET entry == plugins[FirstMatching(args.name, plugins)]
                 IN  /\ result.value.path = PathOf(entry)
                     /\ entry.Enabled => result.value.err.nil
                     /\ ~entry.Enabled => ~result.value.err.nil

\* an enabled entry named "nimble" alone in the registry, "nimble:latest"
\* resolved: not found
C14_Witness ==
    /\ result.called
    /\ "name" \in DOMAIN args
    /\ args.name = <<"nimble">> \o LatestTag
    /\ args.docker.err.nil
    /\ Len(args.docker.plugins) = 1
    /\ args.docker.plugins[1].Name = <<"nimble">>
    /\ args.docker.plugins[1].Enabled
    /\ result.value.path = <<>>
    /\ ~result.value.err.nil

\* C20: discovery succeeds whenever the registry holds an enabled plugin named
\* by the requested name or by it with ":latest" appended, whatever the order
\* of the entries and whatever other entries match.
C20_EnabledMatchIsFound ==
    result.called /\ "name" \in DOMAIN args /\ args.docker.err.nil =>
        ((\E i \in MatchingPlugins(args.name, args.docker.plugins) : args.docker.plugins[i].Enabled)
            => result.value.err.nil)

\* ---------------------------------------------------------------- claims C15, C16

\* C15: when the locator is not absolute and discovery fails (a disabled plugin
\* included), NewDockerVolumePlugin returns no client and the discovery error
\* and sends no probe; otherwise it sends exactly one Capabilities request and
\* returns the client, with the probe's error when the probe fails and with no
\* error when it succeeds.
C15_ConstructionOutcomes ==
    result.called /\ "options" \in DOMAIN args =>
        LET locator == args.options.SocketPath
            discovery == getV2PluginSocket(locator, args.docker)
        IN  IF locator # <<>> /\ locator[1] = "/"
            THEN /\ roundTrips = 1
                 /\ lastCall.sent = <<Request(CapabilitiesURI, NoOptions)>>
                 /\ result.value.dvp # NilClient
                 /\ result.value.dvp[1].client = locator
                 /\ result.value.err = lastCall.err
            ELSE IF ~discovery.err.nil
            THEN /\ roundTrips = 0
                 /\ lastCall.sent = <<>>
                 /\ result.value.dvp = NilClient
                 /\ result.value.err = discovery.err
            ELSE /\ roundTrips = 1
                 /\ lastCall.sent = <<Request(CapabilitiesURI, NoOptions)>>
                 /\ result.value.dvp # NilClient
                 /\ result.value.dvp[1].client = discovery.path
                 /\ result.value.err = lastCall.err

\* the plugin's name is resolved, the probe fails: the client and the error
C15_Witness ==
    /\ result.called
    /\ "options" \in DOMAIN args
    /\ args.options.SocketPath = <<"nimble">>
    /\ roundTrips = 1
    /\ result.value.dvp # NilClient
    /\ result.value.err = ErrTransport

\* C16: with the empty string for locator NewDockerVolumePlugin builds the
\* client on the default socket path instead of failing.
C16_EmptyLocatorUsesTheDefaultPath ==
    result.called /\ "options" \in DOMAIN args /\ args.options.SocketPath = <<>> =>
        /\ result.value.dvp # NilClient
        /\ result.value.dvp[1].client = defaultSocketPath

\* ---------------------------------------------------------------- claim C17

\* C17: once addedClaim has returned for an eligible claim, the claim's UID is
\* in the table (the handler registers it before it starts the goroutine), and
\* provisionVolume never starts for a claim whose UID is not in the table.
C17_RegisteredWhenTheHandlerReturns ==
    handlerWait = 0 =>
        \A i \in AddEvents :
            /\ Eligible(events[i].payload) => events[i].payload.claim.UID \in id2chan
            /\ events[i].pc \in {"provisioning", "done"} => events[i].payload.claim.UID \in id2chan

\* ---------------------------------------------------------------- claim C18

\* C18: whatever the informer does to the store meanwhile, a call of
\* getClaimFromPVCName sleeps at most maxWaitForClaims times before it returns.
C18_SleepsBoundedByMaxWait ==
    call.pc # "idle" => call.sleeps <= maxWaitForClaims

====
